---- MODULE Spec2Model ----
(***************************************************************************)
(* Model of the tm1-blackhawk transaction log tracker:                     *)
(*   - odata.Client.TrackCollection        (the poll loop)                 *)
(*   - odata.JSONReviver.ParseTransactionLogs (the token stream parser)    *)
(*   - main.processTransactionLogEntries   (the re-streaming forwarder)    *)
(* together with the io.Pipe between the forwarder and the outbound POST,  *)
(* the unbuffered deltaLinkChannel, and a change-tracking server.          *)
(***************************************************************************)
EXTENDS Integers, Sequences, FiniteSets, TLC

\* ------------------------------------------------------------------ bounds
\* Entries the server's append-only transaction log may hold.
MaxLog == 3
\* Tracking GETs one run of TrackCollection may issue.
MaxPolls == 3

\* The interval main passes when TM1_TRACKER_INTERVAL is unset, in seconds.
Interval == 5

\* ------------------------------------------------------------- link names
StartURL == "TransactionLogEntries"
\* Fresh delta-links, one per response that offers one.
DeltaNames == <<"D1", "D2", "D3", "D4", "D5", "D6">>
DeltaLinks == {DeltaNames[i] : i \in 1..Len(DeltaNames)}
NextLinks == {"/p2"}

\* ------------------------------------------------------------ JSON tokens
\* A response body is the sequence of tokens json.Decoder sees.  Elements of
\* a collection array are kept whole (k = "obj": a transaction log entry
\* with ID n; k = "num": a bare number), everything else is flat.
Tok(k, s, n) == [k |-> k, s |-> s, n |-> n]
Delim(c) == Tok("delim", c, 0)
Str(s) == Tok("str", s, 0)
Obj(n) == Tok("obj", "", n)
Num(n) == Tok("num", "", n)

\* TransactionLogEntry as json.Decoder.Decode fills it from an element.
DecodeEntry(tok) == [ID |-> tok.n]
\* json.Encoder.Encode of a TransactionLogEntry: one object (and a newline).
EncodeEntry(entry) == Obj(entry.ID)

\* C1 mutant: the element loop turns once only (an if for the for).
More_Once(b, c) ==
    /\ c <= Len(b) /\ b[c] \notin {Delim("]"), Delim("}")}
    /\ c > 1 => b[c - 1].k # "obj"

\* json.Decoder.More: a next token exists and it closes nothing.
More(b, c) == c <= Len(b) /\ b[c] \notin {Delim("]"), Delim("}")}

\* json.Decoder.Token succeeds unless the input has ended.
TokenOK(b, c) == c <= Len(b)

\* The cursor after the value that starts at c (balanced when structured).
RECURSIVE SkipToClose(_, _, _)
SkipToClose(b, c, depth) ==
    IF c > Len(b) THEN c
    ELSE IF b[c] \in {Delim("{"), Delim("[")} THEN SkipToClose(b, c + 1, depth + 1)
    ELSE IF b[c] \in {Delim("}"), Delim("]")}
         THEN IF depth <= 1 THEN c + 1 ELSE SkipToClose(b, c + 1, depth - 1)
    ELSE IF depth = 0 THEN c + 1
    ELSE SkipToClose(b, c + 1, depth)

\* r.decoder.Decode(&deltaLink): the error is dropped; a string value is
\* stored, any other value leaves deltaLink as it was.
DecodeDeltaLink(b, c, old) ==
    IF c > Len(b) \/ b[c] \in {Delim("}"), Delim("]")}
    THEN [dl |-> old, cur |-> c]
    ELSE [dl |-> IF b[c].k = "str" THEN b[c].s ELSE old,
          cur |-> SkipToClose(b, c, 0)]

\* C12 mutant: the error of decoding an element is dropped.
DecodeEntryOK_Any(b, c) == c <= Len(b)

\* An element decodes into a TransactionLogEntry only when it is an object.
DecodeEntryOK(b, c) == c <= Len(b) /\ b[c].k = "obj"

\* --------------------------------------------------------- response bodies
Elements(entries) == [i \in 1..Len(entries) |-> Obj(entries[i])]

ValueMember(elems) == <<Str("value"), Delim("[")>> \o elems \o <<Delim("]")>>

DeltaMember(dl) == IF dl = "" THEN <<>> ELSE <<Str("@odata.deltaLink"), Str(dl)>>

NextMember(nl) == IF nl = "" THEN <<>> ELSE <<Str("@odata.nextLink"), Str(nl)>>

ContextMember == <<Str("@odata.context"), Str("$metadata#TransactionLogEntries")>>

\* What a server puts in the body of an answer whose status is not 2xx.
ErrorMember == <<Str("error"), Delim("{"), Str("code"), Str("278"), Delim("}")>>

\* Shapes of body a server may send.  The first two are the protocol's
\* shape; the others are a truncated body, a body with an element that is
\* no object, a body with an unrelated member whose value is "value", a
\* body whose object is never closed, the body of an error answer, and a
\* body with an unrelated member whose value is an object.
WellFormedShapes == {"tm1", "deltaFirst"}
\* The shapes ParseTransactionLogs returns an error on.
FailingShapes == {"truncated", "badElement", "strValue", "noClose"}
Shapes == WellFormedShapes \cup FailingShapes \cup {"error", "nested"}

\* The HTTP status the server sends with a body.
StatusOf(shape) == IF shape = "error" THEN 500 ELSE 200

BuildBody(shape, entries, dl, nl) ==
    CASE shape = "tm1" ->
           <<Delim("{")>> \o ContextMember \o ValueMember(Elements(entries))
             \o NextMember(nl) \o DeltaMember(dl) \o <<Delim("}")>>
      [] shape = "deltaFirst" ->
           <<Delim("{")>> \o DeltaMember(dl) \o NextMember(nl)
             \o ValueMember(Elements(entries)) \o <<Delim("}")>>
      [] shape = "truncated" ->
           <<Delim("{"), Str("value"), Delim("[")>> \o Elements(entries)
      [] shape = "badElement" ->
           <<Delim("{")>> \o ValueMember(Elements(entries) \o <<Num(123)>>)
             \o DeltaMember(dl) \o <<Delim("}")>>
      [] shape = "strValue" ->
           <<Delim("{"), Str("x"), Str("value")>> \o ValueMember(Elements(entries))
             \o DeltaMember(dl) \o <<Delim("}")>>
      [] shape = "noClose" ->
           <<Delim("{")>> \o DeltaMember(dl) \o ValueMember(Elements(entries))
      [] shape = "error" ->
           <<Delim("{")>> \o ErrorMember \o <<Delim("}")>>
      [] shape = "nested" ->
           <<Delim("{"), Str("x"), Delim("{"), Str("a"), Str("b"), Delim("}")>>
             \o ValueMember(Elements(entries)) \o DeltaMember(dl) \o <<Delim("}")>>

\* ------------------------------------------------------------------- state
VARIABLES
    \* server
    log,         \* the append-only transaction log: entry IDs in log order
    linkPos,     \* linkPos[i]: the log position DeltaNames[i] was issued at
    \* Client.TrackCollection
    pc,          \* "fetch", "respond", "processing", "decide", "sleep", "exited"
    urlStr,      \* the loop variable urlStr
    nextLink,    \* what the processor returned
    deltaLink,
    trace,       \* history: GET, PROC and SLEEP events of TrackCollection
    \* the response being processed
    resp,        \* what the server put in it: shape, entries, dl, nl
    body,        \* its tokens
    cursor,      \* the decoder's position in body
    \* the parser goroutine (ParseTransactionLogs and its callback)
    ppc,         \* its position
    dlVar,       \* ParseTransactionLogs's local deltaLink
    cb,          \* the container of the callback in progress
    count,       \* the callback's captured count
    delivered,   \* history: the callbacks issued for this body
    \* outputPipe/outputStream of this body and the goroutines reading them
    pipe,        \* the chunk of a Write the reader has not yet taken
    written,     \* history: chunks written to outputStream for this body
    closed,      \* closed[b]: outputStream of body b was closed
    closedAt,    \* history: written at the time of outputStream.Close()
    readers,     \* readers[b]: "none", "post", "drain" or "eof"
    posts,       \* posts[b]: ExecutePOSTRequest calls made for body b
    sink,        \* history: entry IDs the POST readers took, in order
    handoffs,    \* history: values sent on this body's deltaLinkChannel
    fatal        \* log.Fatal was called: the process is gone

serverVars == <<log, linkPos>>
loopVars == <<pc, urlStr, nextLink, deltaLink, trace>>
parserVars == <<resp, body, cursor, ppc, dlVar, cb, count, delivered>>
pipeVars == <<pipe, written, closed, closedAt, readers, posts, sink, handoffs>>
vars == <<serverVars, loopVars, parserVars, pipeVars, fatal>>

Bodies == 1..(MaxPolls + 1)
\* The index of the body being processed: the GETs issued so far.
Gets == {i \in 1..Len(trace) : trace[i].e = "GET"}
cur == Cardinality(Gets)

NoResp == [shape |-> "none", entries |-> <<>>, dl |-> "", nl |-> ""]
NoCb == [kind |-> "none", entry |-> [ID |-> 0], dl |-> ""]

Init ==
    /\ log = <<>>
    /\ linkPos = <<>>
    /\ pc = "fetch"
    /\ urlStr = StartURL
    /\ nextLink = ""
    /\ deltaLink = ""
    /\ trace = <<>>
    /\ resp = NoResp
    /\ body = <<>>
    /\ cursor = 1
    /\ ppc = "idle"
    /\ dlVar = ""
    /\ cb = NoCb
    /\ count = 0
    /\ delivered = <<>>
    /\ pipe = <<>>
    /\ written = <<>>
    /\ closed = [b \in Bodies |-> FALSE]
    /\ closedAt = <<>>
    /\ readers = [b \in Bodies |-> "none"]
    /\ posts = [b \in Bodies |-> 0]
    /\ sink = <<>>
    /\ handoffs = <<>>
    /\ fatal = FALSE

\* ------------------------------------------------------------------ server
\* The log position a tracking URL stands for: the start URL asks for the
\* whole collection, a delta-link for what was appended after it was issued.
PosOf(url) ==
    IF \E i \in 1..Len(linkPos) : DeltaNames[i] = url
    THEN linkPos[CHOOSE i \in 1..Len(linkPos) : DeltaNames[i] = url]
    ELSE 0

\* A transaction is committed on the server: the log grows by one entry.
AppendEntry ==
    /\ ~fatal
    /\ Len(log) < MaxLog
    /\ log' = Append(log, Len(log) + 1)
    /\ UNCHANGED <<linkPos, loopVars, parserVars, pipeVars, fatal>>

\* The server answers the GET: the entries after the requested position,
\* a fresh delta-link unless it stops offering deltas, and possibly a
\* next-link at the root.
Respond ==
    /\ ~fatal
    /\ pc = "respond"
    /\ \E shape \in Shapes, offer \in BOOLEAN, nl \in NextLinks \cup {""} :
         LET entries == IF shape = "error" THEN <<>>
                        ELSE SubSeq(log, PosOf(urlStr) + 1, Len(log))
             dl == IF offer THEN DeltaNames[Len(linkPos) + 1] ELSE ""
         IN /\ nl # "" => shape \in WellFormedShapes
            /\ shape = "error" => ~offer
            /\ resp' = [shape |-> shape, entries |-> entries, dl |-> dl, nl |-> nl]
            /\ body' = BuildBody(shape, entries, dl, nl)
            /\ linkPos' = IF offer THEN Append(linkPos, Len(log)) ELSE linkPos
    /\ pc' = "call"
    /\ UNCHANGED <<log, urlStr, nextLink, deltaLink, trace, cursor, ppc, dlVar,
                   cb, count, delivered, pipeVars, fatal>>

\* --------------------------------------------------- Client.TrackCollection
\* GET of url; PROC: the processor returned nl and dl; SLEEP of n seconds.
Event(e, url, nl, dl, n) == [e |-> e, url |-> url, nl |-> nl, dl |-> dl, n |-> n]

\* The loop head: the condition urlStr != "" and the GET of the iteration.
IssueGET ==
    /\ ~fatal
    /\ pc = "fetch"
    /\ cur < MaxPolls
    /\ IF urlStr = ""
       THEN pc' = "exited" /\ trace' = trace
       ELSE pc' = "respond" /\ trace' = Append(trace, Event("GET", urlStr, "", "", 0))
    /\ UNCHANGED <<serverVars, urlStr, nextLink, deltaLink, parserVars, pipeVars, fatal>>

\* C7 mutant: the delta-link is preferred over the next-link.
NextRequest_DeltaFirst(nl, dl) ==
    IF dl # "" THEN [pc |-> "sleep", url |-> dl]
    ELSE IF nl # "" THEN [pc |-> "fetch", url |-> nl]
    ELSE [pc |-> "exited", url |-> ""]

\* C4 mutant: the loop is left as soon as there is no next-link.
NextRequest_StopWithoutNext(nl, dl) ==
    IF nl # "" THEN [pc |-> "fetch", url |-> nl]
    ELSE [pc |-> "exited", url |-> ""]

\* C5 mutant: the delta-link is requested at once, without the sleep.
NextRequest_NoSleep(nl, dl) ==
    IF nl # "" THEN [pc |-> "fetch", url |-> nl]
    ELSE IF dl # "" THEN [pc |-> "fetch", url |-> dl]
    ELSE [pc |-> "exited", url |-> ""]

\* C10 mutant: after the sleep the whole collection is requested again.
NextRequest_Restart(nl, dl) ==
    IF nl # "" THEN [pc |-> "fetch", url |-> nl]
    ELSE IF dl # "" THEN [pc |-> "sleep", url |-> StartURL]
    ELSE [pc |-> "exited", url |-> ""]

\* The if / else if / else that ends an iteration: where the loop goes and
\* which link it goes on with.
NextRequest(nl, dl) ==
    IF nl # "" THEN [pc |-> "fetch", url |-> nl]
    ELSE IF dl # "" THEN [pc |-> "sleep", url |-> dl]
    ELSE [pc |-> "exited", url |-> ""]

Decide ==
    /\ ~fatal
    /\ pc = "decide"
    /\ LET d == NextRequest(nextLink, deltaLink)
       IN /\ pc' = d.pc
          /\ urlStr' = IF d.pc = "fetch" THEN d.url ELSE urlStr
    /\ UNCHANGED <<serverVars, nextLink, deltaLink, trace, parserVars, pipeVars, fatal>>

\* time.Sleep(interval), then urlStr = deltaLink.
Sleep ==
    /\ ~fatal
    /\ pc = "sleep"
    /\ trace' = Append(trace, Event("SLEEP", "", "", "", Interval))
    /\ urlStr' = NextRequest(nextLink, deltaLink).url
    /\ pc' = "fetch"
    /\ UNCHANGED <<serverVars, nextLink, deltaLink, parserVars, pipeVars, fatal>>

\* client.processorFunc as TrackCollection sees it: any function that
\* returns a next-link and a delta-link.
TrackDeltaLinks == {"D1", "D2"}
processorFunc ==
    /\ pc = "respond"
    /\ \E nl \in NextLinks \cup {""}, dl \in TrackDeltaLinks \cup {""} :
         /\ nextLink' = nl
         /\ deltaLink' = dl
         /\ trace' = Append(trace, Event("PROC", "", nl, dl, 0))
    /\ pc' = "decide"
    /\ UNCHANGED <<serverVars, urlStr, parserVars, pipeVars, fatal>>

\* ---------------------------------------------- main.processTransactionLogEntries
\* The call: a reviver on the response body, a fresh io.Pipe, a fresh
\* unbuffered deltaLinkChannel and the parser goroutine; the caller then
\* blocks in the receive of the return statement.
processTransactionLogEntries ==
    /\ ~fatal
    /\ pc = "call"
    /\ pc' = "processing"
    /\ cursor' = 1
    /\ ppc' = "objStart"
    /\ dlVar' = ""
    /\ cb' = NoCb
    /\ count' = 0
    /\ delivered' = <<>>
    /\ pipe' = <<>>
    /\ written' = <<>>
    /\ closedAt' = <<>>
    /\ handoffs' = <<>>
    /\ UNCHANGED <<serverVars, urlStr, nextLink, deltaLink, trace, resp, body,
                   closed, readers, posts, sink, fatal>>

\* C19 mutant: the Writes do not wait for the reader (a buffered stream).
ParserRuns_Unblocked == ~fatal

\* The parser goroutine runs unless the process is gone or it is blocked in
\* a Write the reader has not taken yet.
ParserRuns == ~fatal /\ pipe = <<>>

\* C18 mutant: the error is dropped and the last callback issued all the same.
ParseFailed_Ignored ==
    /\ ppc' = "cbDelta"
    /\ cb' = [kind |-> "final", entry |-> [ID |-> 0], dl |-> dlVar]
    /\ delivered' = Append(delivered, cb')
    /\ UNCHANGED <<cursor, dlVar, fatal>>

\* log.Fatal(err.Error()) on the error ParseTransactionLogs returned.
ParseFailed ==
    /\ fatal' = TRUE
    /\ ppc' = "failed"
    /\ UNCHANGED <<cursor, dlVar, cb, delivered>>

\* ------------------------------------ JSONReviver.ParseTransactionLogs
\* C11, C17, C20 mutant: the container of an entry carries the deltaLink
\* read so far.
RecordContainer_WithDelta(entry) == [kind |-> "record", entry |-> entry, dl |-> dlVar]

RecordContainer(entry) == [kind |-> "record", entry |-> entry, dl |-> ""]
FinalContainer(dl) == [kind |-> "final", entry |-> [ID |-> 0], dl |-> dl]

\* C2 mutant: the parser returns without the last callback.
DoneParsing_Silent(dl) == <<>>

\* "Done parsing": the callbacks issued once the object is closed.
DoneParsing(dl) == <<FinalContainer(dl)>>

\* The first token must be the object start delimiter.
ParseObjectStart ==
    /\ ParserRuns
    /\ ppc = "objStart"
    /\ IF TokenOK(body, cursor) /\ body[cursor] = Delim("{")
       THEN /\ cursor' = cursor + 1
            /\ ppc' = "members"
            /\ UNCHANGED <<dlVar, cb, delivered, fatal>>
       ELSE ParseFailed
    /\ UNCHANGED <<serverVars, loopVars, resp, body, count, pipeVars>>

\* One turn of the member loop: the next token; "@odata.deltaLink" has its
\* value decoded into deltaLink; any token but "value" is skipped.
ParseMember ==
    /\ ParserRuns
    /\ ppc = "members"
    /\ IF More(body, cursor)
       THEN LET token == body[cursor]
                isDelta == token = Str("@odata.deltaLink")
                d == IF isDelta THEN DecodeDeltaLink(body, cursor + 1, dlVar)
                     ELSE [dl |-> dlVar, cur |-> cursor + 1]
            IN /\ dlVar' = d.dl
               /\ cursor' = d.cur
               /\ ppc' = IF token # Str("value") THEN "members" ELSE "arrStart"
       ELSE /\ ppc' = "objEnd"
            /\ UNCHANGED <<dlVar, cursor>>
    /\ UNCHANGED <<serverVars, loopVars, resp, body, cb, count, delivered, pipeVars, fatal>>

\* 'value' should contain an array.
ParseArrayStart ==
    /\ ParserRuns
    /\ ppc = "arrStart"
    /\ IF TokenOK(body, cursor) /\ body[cursor] = Delim("[")
       THEN /\ cursor' = cursor + 1
            /\ ppc' = "elements"
            /\ UNCHANGED <<dlVar, cb, delivered, fatal>>
       ELSE ParseFailed
    /\ UNCHANGED <<serverVars, loopVars, resp, body, count, pipeVars>>

\* One turn of the element loop: decode the next element and give it to the
\* callback, or leave the loop when the array has no more elements.
ParseElement ==
    /\ ParserRuns
    /\ ppc = "elements"
    /\ IF More(body, cursor)
       THEN IF DecodeEntryOK(body, cursor)
            THEN LET c == RecordContainer(DecodeEntry(body[cursor]))
                 IN /\ cursor' = cursor + 1
                    /\ cb' = c
                    /\ delivered' = Append(delivered, c)
                    /\ ppc' = "cbEntry"
                    /\ UNCHANGED <<dlVar, fatal>>
            ELSE ParseFailed
       ELSE /\ ppc' = "arrEnd"
            /\ UNCHANGED <<cursor, dlVar, cb, delivered, fatal>>
    /\ UNCHANGED <<serverVars, loopVars, resp, body, count, pipeVars>>

\* End of Array.
ParseArrayEnd ==
    /\ ParserRuns
    /\ ppc = "arrEnd"
    /\ IF TokenOK(body, cursor) /\ body[cursor] = Delim("]")
       THEN /\ cursor' = cursor + 1
            /\ ppc' = "members"
            /\ UNCHANGED <<dlVar, cb, delivered, fatal>>
       ELSE ParseFailed
    /\ UNCHANGED <<serverVars, loopVars, resp, body, count, pipeVars>>

\* The object end delimiter, then the last callback with the deltaLink.
ParseObjectEnd ==
    /\ ParserRuns
    /\ ppc = "objEnd"
    /\ IF TokenOK(body, cursor) /\ body[cursor] = Delim("}")
       THEN LET cs == DoneParsing(dlVar)
            IN /\ cursor' = cursor + 1
               /\ IF cs = <<>>
                  THEN ppc' = "returned" /\ UNCHANGED <<cb, delivered>>
                  ELSE /\ cb' = cs[1]
                       /\ delivered' = Append(delivered, cs[1])
                       /\ ppc' = "cbDelta"
               /\ UNCHANGED <<dlVar, fatal>>
       ELSE ParseFailed
    /\ UNCHANGED <<serverVars, loopVars, resp, body, count, pipeVars>>

\* ------------------------------- the callback of processTransactionLogEntries
\* The framing the callback writes around the encoded entries.
OpenFraming == <<Delim("{"), Str("value"), Delim("[")>>
Separator == <<Tok("sep", ",", 0)>>
CloseFraming == <<Delim("]")>>

\* C9 mutant: a POST is started for every entry.
ArmPost_Always(n) == TRUE

\* if count == 0: the first entry of the body starts the streaming POST.
ArmPost(n) == n = 0

\* outputStream.Write blocks until the reader has taken the bytes: the chunk
\* stays in pipe, and ParserRuns is false, until a reader takes it.
Write(chunk) ==
    /\ pipe' = pipe \o chunk
    /\ written' = written \o chunk

\* An entry arrives (txnLogEntry != nil): on the first one the POST goroutine
\* is started and the opening framing written, later ones write a separator.
CallbackEntry ==
    /\ ParserRuns
    /\ ppc = "cbEntry"
    /\ IF ArmPost(count)
       THEN /\ posts' = [posts EXCEPT ![cur] = @ + 1]
            /\ readers' = [readers EXCEPT ![cur] = "post"]
            /\ Write(OpenFraming)
            /\ count' = count + 1
       ELSE /\ Write(Separator)
            /\ UNCHANGED <<posts, readers, count>>
    /\ ppc' = "cbEncode"
    /\ UNCHANGED <<serverVars, loopVars, resp, body, cursor, dlVar, cb, delivered,
                   closed, closedAt, sink, handoffs, fatal>>

\* encoder.Encode(txnLogEntry); the container of an entry has no DeltaLink,
\* so the callback returns to the element loop.
CallbackEncode ==
    /\ ParserRuns
    /\ ppc = "cbEncode"
    /\ Write(<<EncodeEntry(cb.entry)>>)
    /\ ppc' = IF cb.dl # "" THEN "cbDelta" ELSE "elements"
    /\ UNCHANGED <<serverVars, loopVars, resp, body, cursor, dlVar, cb, count,
                   delivered, closed, closedAt, readers, posts, sink, handoffs, fatal>>

\* The last container: when its DeltaLink is not empty the array is closed
\* (count > 0) or a goroutine is started that drains the pipe; when it is
\* empty the callback, and with it ParseTransactionLogs, just returns.
CallbackDelta ==
    /\ ParserRuns
    /\ ppc = "cbDelta"
    /\ IF cb.dl # ""
       THEN /\ IF count > 0
               THEN Write(CloseFraming) /\ UNCHANGED readers
               ELSE /\ readers' = [readers EXCEPT ![cur] = "drain"]
                    /\ UNCHANGED <<pipe, written>>
            /\ ppc' = "cbClose"
       ELSE /\ ppc' = "returned"
            /\ UNCHANGED <<pipe, written, readers>>
    /\ UNCHANGED <<serverVars, loopVars, resp, body, cursor, dlVar, cb, count,
                   delivered, closed, closedAt, posts, sink, handoffs, fatal>>

\* outputStream.Close()
CallbackClose ==
    /\ ParserRuns
    /\ ppc = "cbClose"
    /\ closed' = [closed EXCEPT ![cur] = TRUE]
    /\ closedAt' = written
    /\ ppc' = "cbSend"
    /\ UNCHANGED <<serverVars, loopVars, resp, body, cursor, dlVar, cb, count,
                   delivered, pipe, written, readers, posts, sink, handoffs, fatal>>

\* deltaLinkChannel <- txnLogContainer.DeltaLink meets the receive of
\* return "", <-deltaLinkChannel: the processor returns to TrackCollection,
\* the callback returns to ParseTransactionLogs, which returns after its
\* last callback.
CallbackSend ==
    /\ ParserRuns
    /\ ppc = "cbSend"
    /\ pc = "processing"
    /\ handoffs' = Append(handoffs, cb.dl)
    /\ nextLink' = ""
    /\ deltaLink' = cb.dl
    /\ trace' = Append(trace, Event("PROC", "", "", cb.dl, 0))
    /\ pc' = "decide"
    /\ ppc' = IF cb.kind = "record" THEN "elements" ELSE "returned"
    /\ UNCHANGED <<serverVars, urlStr, resp, body, cursor, dlVar, cb, count,
                   delivered, pipe, written, closed, closedAt, readers, posts,
                   sink, fatal>>

\* ------------------------------------------------ the readers of outputPipe
\* The entry IDs in a chunk.
RECURSIVE EntriesIn(_)
EntriesIn(chunk) ==
    IF chunk = <<>> THEN <<>>
    ELSE (IF Head(chunk).k = "obj" THEN <<Head(chunk).n>> ELSE <<>>)
         \o EntriesIn(Tail(chunk))

\* A reader takes the bytes of the pending Write: the transport of
\* ExecutePOSTRequest sends them to the sink, the draining goroutine drops
\* them.  The Write returns.
Read(b) ==
    /\ ~fatal
    /\ b = cur
    /\ readers[b] \in {"post", "drain"}
    /\ pipe # <<>>
    /\ sink' = IF readers[b] = "post" THEN sink \o EntriesIn(pipe) ELSE sink
    /\ pipe' = <<>>
    /\ UNCHANGED <<serverVars, loopVars, parserVars, written, closed, closedAt,
                   readers, posts, handoffs, fatal>>

\* A reader finds the pipe closed and empty: end of stream.
ReadEOF(b) ==
    /\ ~fatal
    /\ readers[b] \in {"post", "drain"}
    /\ closed[b]
    /\ b = cur => pipe = <<>>
    /\ readers' = [readers EXCEPT ![b] = "eof"]
    /\ UNCHANGED <<serverVars, loopVars, parserVars, pipe, written, closed,
                   closedAt, posts, sink, handoffs, fatal>>

\* ----------------------------------------------------------- specifications
Next ==
    \/ AppendEntry
    \/ IssueGET
    \/ Respond
    \/ processTransactionLogEntries
    \/ ParseObjectStart
    \/ ParseMember
    \/ ParseArrayStart
    \/ ParseElement
    \/ ParseArrayEnd
    \/ ParseObjectEnd
    \/ CallbackEntry
    \/ CallbackEncode
    \/ CallbackDelta
    \/ CallbackClose
    \/ CallbackSend
    \/ Decide
    \/ Sleep
    \/ \E b \in Bodies : Read(b)
    \/ \E b \in Bodies : ReadEOF(b)

Spec == Init /\ [][Next]_vars

\* TrackCollection alone, with any processor function.
NextTrack ==
    \/ IssueGET
    \/ processorFunc
    \/ Decide
    \/ Sleep

SpecTrack == Init /\ [][NextTrack]_vars

\* ------------------------------------------------------------------ helpers
Last(q) == q[Len(q)]
IsPrefix(p, q) == Len(p) <= Len(q) /\ \A i \in 1..Len(p) : p[i] = q[i]

\* resp, body and the parser's state all belong to the body numbered cur.
BodyActive == cur >= 1 /\ pc \notin {"respond", "call"}
WellFormedBody == resp.shape \in WellFormedShapes
\* The parser has left the member loop without an error.
ParseComplete == ppc \in {"cbDelta", "cbClose", "cbSend", "returned"}

\* The entries of the Record callbacks issued so far, in order.
RecordsDelivered ==
    LET recs == SelectSeq(delivered, LAMBDA c : c.kind = "record")
    IN [i \in 1..Len(recs) |-> recs[i].entry]
FinalsDelivered == SelectSeq(delivered, LAMBDA c : c.kind = "final")
\* The Records the "value" array of the body holds.
RecordsOfBody == [i \in 1..Len(resp.entries) |-> [ID |-> resp.entries[i]]]

C2_FinalOnceAndLast ==
    /\ Len(FinalsDelivered) <= 1
    /\ \A i \in 1..Len(delivered) : delivered[i].kind = "final" => i = Len(delivered)
    /\ ppc = "returned" =>
         /\ Len(FinalsDelivered) = 1
         /\ Last(delivered) = FinalContainer(dlVar)

\* C2 witness: a parse has returned after two Records and the final unit.
C2_Witness ==
    /\ ppc = "returned"
    /\ Len(RecordsDelivered) >= 2
    /\ Last(delivered).kind = "final"

\* C3: once ParseTransactionLogs has returned without error for a body,
\* exactly one value has been sent on that body's deltaLinkChannel and
\* received by the blocked processor, whatever the body's continuation token.
C3_OneHandoffPerParsedBody ==
    (BodyActive /\ ppc = "returned") =>
        /\ Len(handoffs) = 1
        /\ pc # "processing"

Exited == pc = "exited"
BothEmpty(ev) == ev.e = "PROC" /\ ev.nl = "" /\ ev.dl = ""

\* C4: the loop has been left exactly when the processor's last return gave
\* an empty next-link and an empty delta-link and that return has been acted
\* on; such a return is always the last event, so after any other return the
\* loop goes on, and there is no exit before a body has been processed.
C4_ExitIffNoContinuation ==
    /\ Exited <=> (trace # <<>> /\ BothEmpty(Last(trace)) /\ pc # "decide")
    /\ \A i \in 1..Len(trace) : BothEmpty(trace[i]) => i = Len(trace)
    /\ (trace # <<>> /\ Last(trace).e = "PROC" /\ ~BothEmpty(Last(trace)))
         => pc \in {"decide", "fetch", "sleep"}

\* C4 witness: the loop was left after a second body whose processing
\* returned no link.
C4_Witness ==
    /\ Exited
    /\ cur >= 2
    /\ BothEmpty(Last(trace))

\* C5: every GET after the first follows either directly on the processor's
\* return of the next-link it requests (no sleep), or on exactly one sleep of
\* the configured interval that itself follows the processor's return of an
\* empty next-link and the delta-link it requests; a sleep happens nowhere
\* else.
C5_SleepOnlyBeforeDelta ==
    /\ \A i \in 2..Len(trace) : trace[i].e = "GET" =>
         \/ /\ trace[i - 1].e = "PROC"
            /\ trace[i - 1].nl # ""
            /\ trace[i - 1].nl = trace[i].url
         \/ /\ i >= 3
            /\ trace[i - 1].e = "SLEEP"
            /\ trace[i - 1].n = Interval
            /\ trace[i - 2].e = "PROC"
            /\ trace[i - 2].nl = ""
            /\ trace[i - 2].dl # ""
            /\ trace[i - 2].dl = trace[i].url
    /\ \A i \in 1..Len(trace) : trace[i].e = "SLEEP" =>
         /\ i >= 2 /\ trace[i - 1].e = "PROC"
         /\ i < Len(trace) => trace[i + 1].e = "GET"
         /\ i = Len(trace) => pc = "fetch"
    /\ \A i \in 1..Len(trace) : trace[i].e = "PROC" => i >= 2 /\ trace[i - 1].e = "GET"

\* C5 witness: a run with a next-link GET without sleep and a delta-link GET
\* after a sleep.
C5_Witness ==
    /\ \E i \in 2..Len(trace) : trace[i].e = "GET" /\ trace[i - 1].e = "SLEEP"
    /\ \E i \in 2..Len(trace) : trace[i].e = "GET" /\ trace[i - 1].e = "PROC"

\* C6: when the body carries a next-link at its root and its parse has
\* returned, the processor has returned that next-link to TrackCollection.
C6_NextLinkReturned ==
    (BodyActive /\ resp.nl # "" /\ ppc = "returned") =>
        /\ pc # "processing"
        /\ nextLink = resp.nl

\* C7: after a return of a non-empty next-link together with a non-empty
\* delta-link the next event is the GET of the next-link: no sleep, and the
\* delta-link of that return is not what is requested.
C7_NextLinkWins ==
    \A i \in 1..Len(trace) :
        (trace[i].e = "PROC" /\ trace[i].nl # "" /\ trace[i].dl # "") =>
            /\ i < Len(trace) => trace[i + 1] = Event("GET", trace[i].nl, "", "", 0)
            /\ i = Len(trace) => \/ pc = "decide"
                                 \/ pc = "fetch" /\ urlStr = trace[i].nl

\* C7 witness: both links were returned and the next GET was issued.
C7_Witness ==
    \E i \in 1..(Len(trace) - 1) :
        /\ trace[i].e = "PROC" /\ trace[i].nl # "" /\ trace[i].dl # ""
        /\ trace[i + 1].e = "GET"

\* The document {"value":[e1, e2, ..., en]}, n >= 1: the opening framing, the
\* elements with one separator between neighbours, "]" and "}".
ValueDocument(w) ==
    /\ Len(w) >= 6
    /\ SubSeq(w, 1, 3) = OpenFraming
    /\ w[Len(w) - 1] = Delim("]")
    /\ w[Len(w)] = Delim("}")
    /\ (Len(w) - 5) % 2 = 1
    /\ \A i \in 4..(Len(w) - 2) :
         IF (i - 4) % 2 = 0 THEN w[i].k = "obj" ELSE w[i] = Separator[1]

\* The delimiters a byte sequence opens and has not closed, innermost last.
RECURSIVE OpenDelims(_, _)
OpenDelims(w, stack) ==
    IF w = <<>> THEN stack
    ELSE IF Head(w) \in {Delim("{"), Delim("[")}
         THEN OpenDelims(Tail(w), Append(stack, Head(w).s))
    ELSE IF Head(w) \in {Delim("}"), Delim("]")} /\ stack # <<>>
         THEN OpenDelims(Tail(w), SubSeq(stack, 1, Len(stack) - 1))
    ELSE OpenDelims(Tail(w), stack)

\* C8: when outputStream is closed, the bytes written for the body are a
\* document {"value":[e1, ..., en]} with every delimiter closed, or, for a
\* body of zero Records, no bytes at all.
C8_WellFormedAtClose ==
    (cur >= 1 /\ closed[cur]) =>
        IF RecordsDelivered = <<>>
        THEN closedAt = <<>>
        ELSE ValueDocument(closedAt) /\ OpenDelims(closedAt, <<>>) = <<>>

C10_ExactlyOnceInOrder ==
    /\ IsPrefix(sink, log)
    /\ (cur >= 1 /\ pc \in {"decide", "sleep", "fetch", "respond", "call"}
          /\ deltaLink # "")
         => sink = SubSeq(log, 1, PosOf(deltaLink))
    /\ \A i, j \in Gets : trace[i].url = trace[j].url => i = j

\* C10 witness: entries logged between two polls were forwarded by the
\* POSTs of two bodies, the second one answering a delta-link.
C10_Witness ==
    /\ cur >= 2
    /\ posts[1] = 1 /\ posts[2] = 1
    /\ readers[1] = "eof" /\ readers[2] = "eof"
    /\ sink = log /\ Len(sink) >= 2
    /\ \E i \in Gets : trace[i].url \in DeltaLinks

\* The entries of the elements the decoder has passed: the "obj" tokens of
\* body before position c.
RecordsBefore(b, c) ==
    LET ids == EntriesIn(SubSeq(b, 1, c - 1))
    IN [i \in 1..Len(ids) |-> [ID |-> ids[i]]]
\* The entries whose encoding a reader has taken from this body's pipe.
TakenByReader ==
    LET w == EntriesIn(written)
    IN SubSeq(w, 1, Len(w) - Len(EntriesIn(pipe)))

\* C11: when the continuation token has been handed to the poll loop, every
\* Record of the body has been written to outputStream and taken by the
\* reader; the stream is closed only after every Record was written; and a
\* reader that has seen end-of-stream has received every Record of its body.
C11_HandoffAfterAllRecords ==
    cur >= 1 =>
        /\ handoffs # <<>> =>
             /\ pc \notin {"respond", "call"} => EntriesIn(written) = resp.entries
             /\ EntriesIn(written) = [i \in 1..Len(RecordsDelivered) |-> RecordsDelivered[i].ID]
             /\ pipe = <<>>
             /\ closed[cur] \/ pc \in {"respond", "call"}
        /\ closed[cur] => EntriesIn(closedAt) = resp.entries
        /\ readers[cur] = "eof" =>
             /\ closed[cur]
             /\ TakenByReader = resp.entries

\* C11 witness: the token of a body of two Records was handed off and the
\* POST reader has seen the end of the stream.
C11_Witness ==
    /\ BodyActive
    /\ Len(handoffs) = 1
    /\ Len(resp.entries) >= 2
    /\ readers[cur] = "eof"
    /\ posts[cur] = 1

\* C12: on a body ParseTransactionLogs fails on, no final unit is ever
\* delivered and the parse never returns without error; when it has failed,
\* the error was reported, and at every moment the Records delivered are
\* exactly the elements before the decoder's position, in order.
C12_FailureKeepsPrefix ==
    BodyActive =>
        /\ RecordsDelivered = RecordsBefore(body, cursor)
        /\ resp.shape \in FailingShapes =>
             /\ FinalsDelivered = <<>>
             /\ ppc # "returned"
        /\ ppc = "failed" =>
             /\ fatal
             /\ resp.shape \in FailingShapes
             /\ FinalsDelivered = <<>>

\* C12 witness: the parse failed on the element 123 after two Records.
C12_Witness ==
    /\ BodyActive
    /\ ppc = "failed"
    /\ resp.shape = "badElement"
    /\ Len(RecordsDelivered) >= 2

\* C13: a response to a tracking GET whose status is outside 200..299 is
\* fatal for the cycle: its body is never handed to
\* processTransactionLogEntries and the parser delivers nothing from it.
C13_NonSuccessIsFatal ==
    (cur >= 1 /\ pc # "respond" /\ StatusOf(resp.shape) \notin 200..299) =>
        /\ pc # "processing"
        /\ delivered = <<>> \/ pc = "call"

\* ParseTransactionLogs as a function of a whole body: the callbacks it
\* issues, in order, and whether it returns nil.  st is the position in the
\* code: objStart, members, arrStart, elements, arrEnd, objEnd.
RECURSIVE ParseFrom(_, _, _, _, _)
ParseFrom(b, c, st, dl, cbs) ==
    LET failure == [ok |-> FALSE, delivered |-> cbs]
    IN CASE st = "objStart" ->
              IF TokenOK(b, c) /\ b[c] = Delim("{")
              THEN ParseFrom(b, c + 1, "members", dl, cbs) ELSE failure
         [] st = "members" ->
              IF More(b, c)
              THEN LET token == b[c]
                       d == IF token = Str("@odata.deltaLink")
                            THEN DecodeDeltaLink(b, c + 1, dl)
                            ELSE [dl |-> dl, cur |-> c + 1]
                   IN ParseFrom(b, d.cur,
                                IF token # Str("value") THEN "members" ELSE "arrStart",
                                d.dl, cbs)
              ELSE ParseFrom(b, c, "objEnd", dl, cbs)
         [] st = "arrStart" ->
              IF TokenOK(b, c) /\ b[c] = Delim("[")
              THEN ParseFrom(b, c + 1, "elements", dl, cbs) ELSE failure
         [] st = "elements" ->
              IF More(b, c)
              THEN IF DecodeEntryOK(b, c)
                   THEN ParseFrom(b, c + 1, "elements", dl,
                                  Append(cbs, RecordContainer(DecodeEntry(b[c]))))
                   ELSE failure
              ELSE ParseFrom(b, c, "arrEnd", dl, cbs)
         [] st = "arrEnd" ->
              IF TokenOK(b, c) /\ b[c] = Delim("]")
              THEN ParseFrom(b, c + 1, "members", dl, cbs) ELSE failure
         [] st = "objEnd" ->
              IF TokenOK(b, c) /\ b[c] = Delim("}")
              THEN [ok |-> TRUE, delivered |-> cbs \o DoneParsing(dl)]
              ELSE failure
ParseTransactionLogs(b) == ParseFrom(b, 1, "objStart", "", <<>>)

\* The tokens json.Decoder finds in a byte stream: the commas between the
\* elements of an array are consumed by the decoder and are no tokens.
Tokens(w) == SelectSeq(w, LAMBDA t : t.k # "sep")

\* The entries of the Record callbacks in a sequence of callbacks.
RecordsIn(cbs) ==
    LET recs == SelectSeq(cbs, LAMBDA c : c.kind = "record")
    IN [i \in 1..Len(recs) |-> recs[i].entry]

\* The parser of the program and ParseTransactionLogs as a function agree on
\* every body: same callbacks, same result.
ParserAgrees ==
    (BodyActive /\ (ppc = "failed" \/ ParseComplete)) =>
        /\ delivered = ParseTransactionLogs(body).delivered
        /\ ParseTransactionLogs(body).ok <=> ppc # "failed"

\* C14: when the forwarder has closed the stream of a body with Records,
\* ParseTransactionLogs applied to the bytes it wrote returns nil and
\* delivers the Records the original body delivered.
C14_RoundTrip ==
    (BodyActive /\ closed[cur] /\ posts[cur] = 1) =>
        LET again == ParseTransactionLogs(Tokens(closedAt))
        IN /\ again.ok
           /\ RecordsIn(again.delivered) = RecordsDelivered

\* The body that holds nothing but the collection and the continuation.
BareBody(entries, dl) ==
    <<Delim("{")>> \o ValueMember(Elements(entries)) \o DeltaMember(dl)
      \o <<Delim("}")>>

\* C15: a body that is the bare body with its two members in either order
\* and with unrelated members added (a string, the string "value", an
\* object) makes the parser deliver what the bare body makes it deliver: the
\* same Records, the same final unit, the same result.
C15_UnrelatedMembersIgnored ==
    (/\ BodyActive
     /\ resp.shape \in WellFormedShapes \cup {"strValue", "nested"}
     /\ ppc = "failed" \/ ParseComplete) =>
        LET bare == ParseTransactionLogs(BareBody(resp.entries, resp.dl))
        IN /\ bare.ok <=> ppc # "failed"
           /\ delivered = bare.delivered

\* C16: once the parse of a body with at least one Record has returned
\* without error, the array-close framing has been written and outputStream
\* is closed, so the reader of the POST can reach end-of-stream.  (When
\* ParseTransactionLogs has returned, nothing is left that could close it.)
C16_ClosedWhenParsed ==
    (BodyActive /\ ppc = "returned" /\ RecordsDelivered # <<>>) =>
        /\ closed[cur]
        /\ Last(written) = Delim("]")

\* C17: once outputStream is closed for a body, nothing more is written to
\* it: the bytes written are those written at the close, the close was the
\* callback's last operation on the stream (only the send on
\* deltaLinkChannel follows it), and it happened in the final callback,
\* which occurs once.
C17_CloseIsLast ==
    (cur >= 1 /\ closed[cur]) =>
        /\ written = closedAt
        /\ pipe = <<>> \/ readers[cur] # "eof"
        /\ pc = "processing" => /\ ppc \in {"cbSend", "returned"}
                                /\ cb.kind = "final" \/ ppc = "returned"
                                /\ Len(FinalsDelivered) = 1

\* C17 witness: the stream of a body with two Records was closed after the
\* framing, the Records and the separator, and the parser has returned.
C17_Witness ==
    /\ BodyActive
    /\ closed[cur]
    /\ Len(closedAt) >= 7
    /\ ppc = "returned"
    /\ Len(handoffs) = 1

\* C18: after ParseTransactionLogs has returned an error for a body the
\* program has stopped: nothing was and nothing is handed off for that body,
\* the poll loop is still inside the processor call of that body, the last
\* event of TrackCollection is that body's GET, and the parse is not entered
\* again.
C18_StopsAfterParseError ==
    /\ ppc = "failed" =>
         /\ fatal
         /\ pc = "processing"
         /\ handoffs = <<>>
         /\ Last(trace).e = "GET"
    /\ fatal => ppc = "failed"
    /\ (BodyActive /\ resp.shape \in FailingShapes) =>
         /\ pc = "processing"
         /\ handoffs = <<>>

\* C18 witness: the parse of the second body failed after a Record of it
\* was delivered.
C18_Witness ==
    /\ fatal
    /\ ppc = "failed"
    /\ cur = 2
    /\ RecordsDelivered # <<>>

\* C19: at every moment at most one Record has been decoded from the body
\* without its encoding having been taken by the reader of the pipe, and
\* while a Write is pending (bytes in the pipe no reader has taken) the
\* parser neither decodes an element nor moves in the body.
C19_Backpressure ==
    /\ [](Len(RecordsDelivered) - Len(TakenByReader) \in {0, 1})
    /\ [][pipe # <<>> => (cursor' = cursor /\ delivered' = delivered /\ ppc' = ppc)]_vars

\* C19 witness: the encoding of the second Record waits in the pipe for the
\* reader, which has taken the first.
C19_Witness ==
    /\ BodyActive
    /\ pipe # <<>>
    /\ Last(pipe).k = "obj"
    /\ Len(RecordsDelivered) = 2
    /\ Len(TakenByReader) = 1

\* The events of TrackCollection from its last GET on.
SinceLastGET ==
    LET g == CHOOSE i \in Gets : \A j \in Gets : j <= i
    IN SubSeq(trace, g, Len(trace))

\* C20: a body is being parsed only while TrackCollection is inside the
\* processor call of its current request; when TrackCollection is about to
\* issue or has issued a further GET, the parse of the previous body has
\* returned and its handoff was received (a PROC event lies between any two
\* GETs); at most one GET is unanswered, the latest.
C20_OneBodyOneGet ==
    /\ ppc \notin {"idle", "returned", "failed"} => pc = "processing"
    /\ (cur >= 1 /\ pc \in {"decide", "sleep", "fetch", "exited"}) =>
         /\ ppc = "returned"
         /\ Len(handoffs) = 1
    /\ (cur >= 2 /\ pc \in {"respond", "call"}) =>
         /\ ppc = "returned"
         /\ Len(handoffs) = 1
    /\ \A i \in Gets : \A j \in Gets :
         i < j => \E k \in (i + 1)..(j - 1) : trace[k].e = "PROC"
    /\ cur >= 1 =>
         Len(SelectSeq(SinceLastGET, LAMBDA ev : ev.e = "PROC")) =
           IF pc \in {"respond", "call", "processing"} THEN 0 ELSE 1

\* C20 witness: the second GET was issued after the first body's handoff
\* while the POST of the first body has not yet reached end-of-stream.
C20_Witness ==
    /\ cur = 2
    /\ pc = "respond"
    /\ posts[1] = 1
    /\ readers[1] = "post"
    /\ Len(handoffs) = 1
====
